---- MODULE Spec2Model ----
(***************************************************************************)
(* NAB appointment backend: booking lifecycle (booking.controller.js,      *)
(* admin.controller.js, firebase.service.js), consultant availability      *)
(* (caAvailability.service.js), reference-id issuance                      *)
(* (referenceIdHelper.js) and the reminder scheduler                       *)
(* (reminderScheduler.service.js), for one business.                       *)
(*                                                                         *)
(* Representation: a date is a day number (new Date("YYYY-MM-DD") is that  *)
(* day's UTC midnight), a time_slot "HH:MM" is the pair <<HH, MM>>, an      *)
(* instant is a number of seconds since day 0, 00:00 UTC.                  *)
(***************************************************************************)
EXTENDS Integers, Sequences, FiniteSets, TLC

VARIABLES
    appointments,   \* businesses/{id}/appointments: reference id -> document
    counters,       \* businesses/{id}/system/counters document
    caDocs,         \* businesses/{id}/CA: consultant id -> document
    year,           \* new Date().getFullYear()
    inflight,       \* createBookingOrder calls suspended between scan and write
    now,            \* the wall clock (Date.now()), in seconds
    tz,             \* the server's local-time offset from UTC, in seconds
    runs,           \* executions of the reminder checks, one per scheduler
    dispatched,     \* successful brevoService.sendReminderEmail calls per (booking, key)
    issued,         \* reference ids returned by generateReferenceId, in order of return
    txs,            \* getNextCounter transactions in progress, one per caller
    hist,           \* history: how the issue calls so far were made, whether
                    \* resetCounter has run since the last id was returned,
                    \* and how many flag updates the store has rejected
    referenceIdCounter, \* businesses/{id}/system/counters/reference_id/counter
    lockedSlots,    \* slotLock.js: the Map key -> {lockedAt, expiresAt}
    unswept,        \* the same Map in a process that never runs the cleanup
    granted         \* history: per key the time lockSlot last returned true
                    \* since the key was last released

storeVars == <<appointments, counters, caDocs>>
schedVars == <<now, tz, runs, dispatched>>
issueVars == <<issued, txs, hist>>
lockVars == <<lockedSlots, unswept, granted>>

vars == <<appointments, counters, caDocs, year, inflight,
          now, tz, runs, dispatched, issued, txs, hist,
          referenceIdCounter, lockedSlots, unswept, granted>>

----------------------------------------------------------------------------
(* Bounds of the model *)

MaxBookings == 2        \* bookings created (the year counter is capped here)
MaxInflight == 2        \* createBookingOrder calls in flight at once
MaxContended == 1       \* bookings in the store two schedulers work on at once
MaxIssue == 3           \* the year counter is capped here when issuing alone
MaxRollover == 1        \* new years seen
MaxRejected == 1        \* flag updates the store rejects

(* Inputs *)

TheDate == 20157        \* the date 2025-03-10 as a day number
CurrentYear == 2025

TimeSlots == { <<9, 0>>, <<9, 15>>, <<9, 30>> }
ReqCAs == { "", "ca1", "ca2", "ghost" }  \* "": no CA requested; ghost: no document
SlotDurations == { 30 }                  \* settings.slot_durations
StatusInputs == { "draft", "pending", "confirmed", "completed", "cancelled" }

Request(ca_id, date, time_slot, duration) ==
    [ca_id |-> ca_id, date |-> date, time_slot |-> time_slot, duration |-> duration]

\* request bodies: every CA and time slot with the priced duration, one body
\* without a duration (0) and one with a duration that has no price (45)
Requests ==
    { Request(ca, TheDate, t, 30) : ca \in ReqCAs, t \in TimeSlots }
    \cup { Request("", TheDate, <<9, 0>>, 0), Request("", TheDate, <<9, 0>>, 45) }

ReqSlots == 1..MaxInflight

\* the labels of the three reminders
ReminderKeys == {"12hr", "1hr", "1min"}

----------------------------------------------------------------------------
(* Pure helpers *)

\* time_slot.split(":").map(Number); hour * 60 + minute
ToMinutes(time_slot) == time_slot[1] * 60 + time_slot[2]

\* data.duration || 30
DurationOr30(d) == IF d = 0 THEN 30 ELSE d

\* slotStartMinutes < existingEnd && slotEndMinutes > existingStart
Overlaps(aStart, aEnd, bStart, bEnd) == aStart < bEnd /\ aEnd > bStart

\* String(counter): the decimal digits of a counter
RECURSIVE Digits(_)
Digits(n) == IF n < 10 THEN <<n>> ELSE Append(Digits(n \div 10), n % 10)

\* .padStart(4, '0')
RECURSIVE PadStart4(_)
PadStart4(s) == IF Len(s) >= 4 THEN s ELSE PadStart4(<<0>> \o s)

\* `NAB_${year}_${paddedCounter}`
FormatReferenceId(y, counter) == <<"NAB", y, PadStart4(Digits(counter))>>

AllIds == { FormatReferenceId(CurrentYear, c) : c \in 1..MaxBookings }

----------------------------------------------------------------------------
(* caAvailability.service.js *)

\* a loop that looks at the first unavailable slot only
IsCAAvailableFirstSlot(caId, date, timeSlot, duration) ==
    IF caId = "" THEN TRUE
    ELSE IF caId \notin DOMAIN caDocs THEN FALSE
    ELSE LET slots == caDocs[caId].unavailable_slots
             s == ToMinutes(timeSlot)
             e == s + duration
         IN  ~ \E i \in 1..Len(slots) :
                 /\ i = 1
                 /\ slots[i].date = date
                 /\ Overlaps(s, e, ToMinutes(slots[i].start_time),
                                   ToMinutes(slots[i].end_time))

\* the body of the try block: the CA document and its unavailable_slots
IsCAAvailable(caId, date, timeSlot, duration) ==
    IF caId = "" THEN TRUE
    ELSE IF caId \notin DOMAIN caDocs THEN FALSE
    ELSE LET slots == caDocs[caId].unavailable_slots
             s == ToMinutes(timeSlot)
             e == s + duration
         IN  ~ \E i \in 1..Len(slots) :
                 /\ slots[i].date = date
                 /\ Overlaps(s, e, ToMinutes(slots[i].start_time),
                                   ToMinutes(slots[i].end_time))

\* a catch block that lets the booking go ahead
IsCAAvailableFailsOpen(caId, date, timeSlot, duration, error) ==
    IF caId = "" THEN TRUE
    ELSE IF error THEN TRUE
    ELSE IsCAAvailable(caId, date, timeSlot, duration)

\* isCAAvailable with its try/catch: error is whether reading the CA
\* document throws; the catch block returns false
IsCAAvailableCatch(caId, date, timeSlot, duration, error) ==
    IF caId = "" THEN TRUE
    ELSE IF error THEN FALSE
    ELSE IsCAAvailable(caId, date, timeSlot, duration)

----------------------------------------------------------------------------
(* referenceIdHelper.js *)

NoCounter == [exists |-> FALSE, year |-> 0, counter |-> 0]

CounterDoc(y, c) == [exists |-> TRUE, year |-> y, counter |-> c]

\* a getNextCounter that goes on counting whatever the stored year is
NextCounterIgnoresYear(doc, y) == (IF doc.exists THEN doc.counter ELSE 0) + 1

\* a getNextCounter that leaves out a counter value
NextCounterSkipsOne(doc, y) ==
    (IF doc.exists /\ doc.year = y THEN doc.counter ELSE 0) + 2

\* a getNextCounter that does not read the stored counter
NextCounterIgnoresDoc(doc, y) == 1

\* the body of the getNextCounter transaction: the counter it writes and returns
NextCounter(doc, y) ==
    (IF doc.exists /\ doc.year = y THEN doc.counter ELSE 0) + 1

----------------------------------------------------------------------------
(* booking.controller.js: createBookingOrder *)

\* isSameCA
IsSameCA(ca_id, assigned_ca) == ca_id = "" \/ assigned_ca = "" \/ assigned_ca = ca_id

\* the overlap scan over the paid appointments of the date
SlotAvailable(ca_id, date, time_slot, duration) ==
    LET s == ToMinutes(time_slot)
        e == s + duration
    IN  ~ \E k \in DOMAIN appointments :
            LET data == appointments[k] IN
            /\ data.date = date
            /\ data.payment_status = "completed"
            /\ IsSameCA(ca_id, data.assigned_ca)
            /\ data.status \in {"pending", "confirmed"}
            /\ Overlaps(s, e, ToMinutes(data.time_slot),
                        ToMinutes(data.time_slot) + DurationOr30(data.duration))

Respond(code, message) == [code |-> code, message |-> message]

\* the response of the validations and the two availability checks; code 200
\* stands for "passed": the handler goes on to issue the reference id
CreateCheckResponseOn(req, caError) ==
    IF req.duration = 0 THEN Respond(400, "Missing required fields")
    ELSE IF req.ca_id # ""
            /\ ~IsCAAvailableCatch(req.ca_id, req.date, req.time_slot,
                                   req.duration, caError)
         THEN Respond(400, "Selected CA is not available at this time")
    ELSE IF ~SlotAvailable(req.ca_id, req.date, req.time_slot, req.duration)
         THEN Respond(400, "This time slot is no longer available")
    ELSE IF req.duration \notin SlotDurations
         THEN Respond(400, "Invalid duration selected")
    ELSE Respond(200, "ok")

\* the response when every read of the store succeeds
CreateCheckResponse(req) == CreateCheckResponseOn(req, FALSE)

NewAppointment(req) ==
    [assigned_ca |-> req.ca_id, date |-> req.date, time_slot |-> req.time_slot,
     duration |-> req.duration, payment_status |-> "pending", status |-> "draft",
     reminder_12hr_sent |-> FALSE, reminder_1hr_sent |-> FALSE,
     reminder_1min_sent |-> FALSE, meet_link |-> FALSE,
     confirmation_email_sent |-> FALSE]

\* a handler that stores the booking although generateReferenceId threw
CreateWriteWithoutId(req, fail) ==
    /\ NextCounter(counters, year) <= MaxBookings
    /\ LET c == NextCounter(counters, year)
           referenceId == FormatReferenceId(year, c)
       IN  /\ appointments' = (referenceId :> NewAppointment(req)) @@ appointments
           /\ dispatched' = (referenceId :> [k \in ReminderKeys |-> 0]) @@ dispatched
           /\ IF fail = "tx"
              THEN UNCHANGED <<counters, issued>>
              ELSE /\ counters' = CounterDoc(year, c)
                   /\ issued' = Append(issued, referenceId)

\* generateReferenceId, createRazorpayOrder and docRef.set, for a request that
\* passed the checks. fail: "none", "tx" (the counter transaction aborts) or
\* "order" (createRazorpayOrder throws)
CreateWrite(req, fail) ==
    /\ NextCounter(counters, year) <= MaxBookings
    /\ IF fail = "tx"
       THEN UNCHANGED <<appointments, counters, issued, dispatched>>
       ELSE LET c == NextCounter(counters, year)
                referenceId == FormatReferenceId(year, c)
            IN  /\ counters' = CounterDoc(year, c)
                /\ issued' = Append(issued, referenceId)
                /\ IF fail = "order"
                   THEN UNCHANGED <<appointments, dispatched>>
                   ELSE /\ appointments' =
                           (referenceId :> NewAppointment(req)) @@ appointments
                        /\ dispatched' =
                           (referenceId :> [k \in ReminderKeys |-> 0]) @@ dispatched

\* the whole handler, run without interruption. fail = "ca": the read of
\* the CA document inside isCAAvailable throws
CreateBookingOrder(req, fail) ==
    /\ fail = "ca" => req.ca_id # "" /\ req.duration # 0
    /\ IF CreateCheckResponseOn(req, fail = "ca").code # 200
       THEN /\ fail \in {"none", "ca"}
            /\ UNCHANGED <<appointments, counters, issued, dispatched>>
       ELSE CreateWrite(req, fail)
    /\ UNCHANGED <<caDocs, referenceIdCounter, lockVars, year, inflight, now, tz,
                   runs, txs, hist>>

\* the handler in two steps, other requests running between its checks and
\* its writes (it awaits the store between them)
NoRequest == [pc |-> "idle", req |-> Request("", 0, <<0, 0>>, 0)]

CreateCheck(r, req) ==
    /\ inflight[r].pc = "idle"
    /\ CreateCheckResponse(req).code = 200
    /\ inflight' = [inflight EXCEPT ![r] = [pc |-> "issue", req |-> req]]
    /\ UNCHANGED <<storeVars, referenceIdCounter, lockVars, year, schedVars,
                   issueVars>>

CreateCommit(r, fail) ==
    /\ inflight[r].pc = "issue"
    /\ CreateWrite(inflight[r].req, fail)
    /\ inflight' = [inflight EXCEPT ![r] = NoRequest]
    /\ UNCHANGED <<caDocs, referenceIdCounter, lockVars, year, now, tz, runs, txs,
                   hist>>

----------------------------------------------------------------------------
(* booking.controller.js: verifyBookingPayment, cancelBooking *)

VerifyResponse(id, isValid) ==
    IF ~isValid THEN Respond(400, "Invalid payment signature")
    ELSE IF id \notin DOMAIN appointments THEN Respond(404, "Appointment not found")
    ELSE Respond(200, "Payment verified successfully")

\* a handler in which a failed createMeetLink ends the request before the
\* payment is recorded
VerifyBookingPaymentNeedsMeet(id, isValid, meetResult, emailResult) ==
    /\ IF VerifyResponse(id, isValid).code # 200 \/ ~meetResult
       THEN UNCHANGED appointments
       ELSE appointments' = [appointments EXCEPT
               ![id].payment_status = "completed", ![id].status = "pending",
               ![id].meet_link = TRUE,
               ![id].confirmation_email_sent = IF emailResult THEN TRUE ELSE @]
    /\ UNCHANGED <<counters, caDocs, referenceIdCounter, lockVars, year,
                   inflight, schedVars, issueVars>>

\* the whole handler: the payment update, then the update of the Meet link
\* when createMeetLink succeeded (meetResult), then the update of the
\* email fields when sendConfirmationEmail succeeded (emailResult); a
\* failure of either is logged and skips its update
VerifyBookingPaymentWith(id, isValid, meetResult, emailResult) ==
    /\ IF VerifyResponse(id, isValid).code # 200
       THEN UNCHANGED appointments
       ELSE appointments' = [appointments EXCEPT
               ![id].payment_status = "completed", ![id].status = "pending",
               ![id].meet_link = IF meetResult THEN TRUE ELSE @,
               ![id].confirmation_email_sent = IF emailResult THEN TRUE ELSE @]
    /\ UNCHANGED <<counters, caDocs, referenceIdCounter, lockVars, year,
                   inflight, schedVars, issueVars>>

\* the handler when the Meet link and the confirmation emails go through
VerifyBookingPayment(id, isValid) == VerifyBookingPaymentWith(id, isValid, TRUE, TRUE)

CancelResponse(id) ==
    IF id \notin DOMAIN appointments THEN Respond(404, "Booking not found")
    ELSE Respond(200, "Booking cancelled successfully")

CancelBooking(id) ==
    /\ IF CancelResponse(id).code # 200
       THEN UNCHANGED appointments
       ELSE appointments' = [appointments EXCEPT ![id].status = "cancelled"]
    /\ UNCHANGED <<counters, caDocs, referenceIdCounter, lockVars, year,
                   inflight, schedVars, issueVars>>

----------------------------------------------------------------------------
(* admin.controller.js: updateStatus, assignCA; firebase.service.js:        *)
(* updateAppointment                                                       *)

ValidStatuses == {"pending", "confirmed", "completed", "cancelled"}

\* .doc(appointmentId).update(..) throws when the document does not exist,
\* and the controller answers 500
UpdateStatusResponse(appointmentId, status) ==
    IF status = "" THEN Respond(400, "Status is required")
    ELSE IF status \notin ValidStatuses THEN Respond(400, "Invalid status")
    ELSE IF appointmentId \notin DOMAIN appointments THEN Respond(500, "NOT_FOUND")
    ELSE Respond(200, "Status updated successfully")

AssignCAResponse(appointmentId, ca_id) ==
    IF ca_id = "" THEN Respond(400, "CA ID is required")
    ELSE IF ca_id \notin DOMAIN caDocs THEN Respond(404, "CA not found")
    ELSE IF appointmentId \notin DOMAIN appointments THEN Respond(500, "NOT_FOUND")
    ELSE Respond(200, "CA assigned successfully")

\* a write that replaces the document by one without its reminder flags
UpdateAppointmentOverwrites(appointmentId, field, value) ==
    appointments' = [appointments EXCEPT
        ![appointmentId] = [[@ EXCEPT !.reminder_12hr_sent = FALSE,
                                      !.reminder_1hr_sent = FALSE,
                                      !.reminder_1min_sent = FALSE]
                              EXCEPT ![field] = value]]

\* the partial update of one field of an existing document
UpdateAppointment(appointmentId, field, value) ==
    appointments' = [appointments EXCEPT ![appointmentId][field] = value]

UpdateStatus(appointmentId, status) ==
    /\ IF UpdateStatusResponse(appointmentId, status).code # 200
       THEN UNCHANGED appointments
       ELSE UpdateAppointment(appointmentId, "status", status)
    /\ UNCHANGED <<counters, caDocs, referenceIdCounter, lockVars, year,
                   inflight, schedVars, issueVars>>

AssignCA(appointmentId, ca_id) ==
    /\ IF AssignCAResponse(appointmentId, ca_id).code # 200
       THEN UNCHANGED appointments
       ELSE UpdateAppointment(appointmentId, "assigned_ca", ca_id)
    /\ UNCHANGED <<counters, caDocs, referenceIdCounter, lockVars, year,
                   inflight, schedVars, issueVars>>

----------------------------------------------------------------------------
(* Initial state and the booking specifications *)

\* ca1 has declared 09:30-10:30 unavailable on the date; ca2 nothing
InitCADocs ==
    ("ca1" :> [unavailable_slots |->
                  << [date |-> TheDate, start_time |-> <<9, 30>>,
                      end_time |-> <<10, 30>>] >>])
    @@ ("ca2" :> [unavailable_slots |-> << >>])

NoHist == [startAbsent |-> TRUE, sequential |-> TRUE, startYear |-> CurrentYear,
           rejected |-> 0, base |-> 0, reset |-> FALSE, admin |-> << >>]

Init ==
    /\ appointments = << >>
    /\ counters = NoCounter
    /\ caDocs = InitCADocs
    /\ year = CurrentYear
    /\ inflight = [r \in ReqSlots |-> NoRequest]
    /\ now = 0
    /\ tz = 0
    /\ runs = << >>
    /\ dispatched = << >>
    /\ issued = << >>
    /\ txs = << >>
    /\ hist = NoHist
    /\ referenceIdCounter = NoCounter
    /\ lockedSlots = << >>
    /\ unswept = << >>
    /\ granted = << >>

Fails == {"none", "tx", "order"}

Next ==
    \/ \E req \in Requests, fail \in Fails : CreateBookingOrder(req, fail)
    \/ \E id \in AllIds, isValid \in BOOLEAN : VerifyBookingPayment(id, isValid)
    \/ \E id \in AllIds : CancelBooking(id)
    \/ \E id \in AllIds, s \in StatusInputs : UpdateStatus(id, s)
    \/ \E id \in AllIds, ca \in ReqCAs : AssignCA(id, ca)

Spec == Init /\ [][Next]_vars

\* the same store with createBookingOrder calls racing each other and the
\* payment callback
NextRace ==
    \/ \E r \in ReqSlots, req \in Requests : CreateCheck(r, req)
    \/ \E r \in ReqSlots, fail \in Fails : CreateCommit(r, fail)
    \/ \E id \in AllIds, isValid \in BOOLEAN : VerifyBookingPayment(id, isValid)

SpecRace == Init /\ [][NextRace]_vars

----------------------------------------------------------------------------
(* reminderScheduler.service.js *)

Schedulers == {1, 2}    \* scheduler instances (deployed replicas)

\* reminderKey: 'reminder_1min_sent' or `reminder_${hoursBeforeAppointment}hr_sent`
FlagOf(key) ==
    IF key = "1min" THEN "reminder_1min_sent"
    ELSE IF key = "12hr" THEN "reminder_12hr_sent"
    ELSE "reminder_1hr_sent"

\* targetTime: now + 1 minute, or now + hoursBeforeAppointment hours
TargetTime(t0, key) ==
    IF key = "1min" THEN t0 + 60
    ELSE IF key = "12hr" THEN t0 + 12 * 3600
    ELSE t0 + 3600

\* half the width of the window: 30 seconds, or 30 minutes
WindowHalf(key) == IF key = "1min" THEN 30 ELSE 30 * 60

\* targetTime.toISOString().split('T')[0]: the UTC date of the target
TargetDateStr(t0, key) == TargetTime(t0, key) \div 86400

\* parseAppointmentTime: new Date(dateStr) is the date's UTC midnight;
\* setHours(hours, minutes, 0, 0) sets the local time of day on the local
\* day that instant falls on
ParseAppointmentTime(dateStr, timeSlot, offset) ==
    LET localDay == (dateStr * 86400 + offset) \div 86400
    IN  localDay * 86400 + timeSlot[1] * 3600 + timeSlot[2] * 60 - offset

\* a query without the filter on status
InSnapshotAnyStatus(data, t0, key) ==
    /\ data.date = TargetDateStr(t0, key)
    /\ data.payment_status = "completed"

\* the query of checkAndSendForWindow
InSnapshot(data, t0, key) ==
    /\ data.date = TargetDateStr(t0, key)
    /\ data.payment_status = "completed"
    /\ data.status \in {"pending", "confirmed"}

\* appointmentTime >= windowStart && appointmentTime <= windowEnd
InWindow(data, t0, key, offset) ==
    LET appointmentTime == ParseAppointmentTime(data.date, data.time_slot, offset)
        windowStart == TargetTime(t0, key) - WindowHalf(key)
        windowEnd == TargetTime(t0, key) + WindowHalf(key)
    IN  appointmentTime >= windowStart /\ appointmentTime <= windowEnd

\* a loop body without the !booking[reminderKey] test
EligibleIgnoresFlag(data, t0, key, offset) == InWindow(data, t0, key, offset)

\* the two tests of the loop body, on the data the query returned
Eligible(data, t0, key, offset) ==
    InWindow(data, t0, key, offset) /\ ~data[FlagOf(key)]

\* the order of snapshot.docs: by document id
IdOrder(id) == id[2] * 10000 + (id[3][1] * 1000 + id[3][2] * 100 + id[3][3] * 10 + id[3][4])

RECURSIVE SortedIds(_)
SortedIds(S) ==
    IF S = {} THEN << >>
    ELSE LET first == CHOOSE a \in S : \A b \in S : IdOrder(a) <= IdOrder(b)
         IN  <<first>> \o SortedIds(S \ {first})

\* the documents of the snapshot for which the loop calls sendReminderEmail
ToSend(t0, key) ==
    SortedIds({ k \in DOMAIN appointments :
                  /\ InSnapshot(appointments[k], t0, key)
                  /\ Eligible(appointments[k], t0, key, tz) })

IdleRun == [started |-> FALSE, pc |-> "idle", t0 |-> 0, windows |-> << >>,
            queue |-> << >>]

\* start(): schedules the two cron jobs
Start(i) ==
    /\ ~runs[i].started
    /\ runs' = [runs EXCEPT ![i].started = TRUE]
    /\ UNCHANGED <<storeVars, referenceIdCounter, lockVars, year, inflight,
                   now, tz, dispatched, issueVars>>

\* the process stops between two ticks and is started again later
Restart(i) ==
    /\ runs[i].started
    /\ runs[i].pc = "idle"
    /\ runs' = [runs EXCEPT ![i] = IdleRun]
    /\ UNCHANGED <<storeVars, referenceIdCounter, lockVars, year, inflight,
                   now, tz, dispatched, issueVars>>

\* a cron firing: check1MinuteReminders or sendHourlyReminders takes `now`
StartTick(i, windows) ==
    /\ runs[i].started
    /\ runs[i].pc = "idle"
    /\ runs' = [runs EXCEPT ![i].pc = "scan", ![i].t0 = now,
                            ![i].windows = windows, ![i].queue = << >>]
    /\ UNCHANGED <<storeVars, referenceIdCounter, lockVars, year, inflight,
                   now, tz, dispatched, issueVars>>

\* checkAndSendForWindow: the query; an empty selection ends the window
Scan(i) ==
    /\ runs[i].pc = "scan"
    /\ LET q == ToSend(runs[i].t0, Head(runs[i].windows)) IN
       IF q # << >>
       THEN runs' = [runs EXCEPT ![i].pc = "loop", ![i].queue = q]
       ELSE IF Len(runs[i].windows) > 1
       THEN runs' = [runs EXCEPT ![i].windows = Tail(@)]
       ELSE runs' = [runs EXCEPT ![i].pc = "idle", ![i].windows = << >>]
    /\ UNCHANGED <<storeVars, referenceIdCounter, lockVars, year, inflight,
                   now, tz, dispatched, issueVars>>

\* the state of a run after the document at the head of its queue is done
AfterDoc(run) ==
    IF Len(run.queue) > 1
    THEN [run EXCEPT !.pc = "loop", !.queue = Tail(@)]
    ELSE IF Len(run.windows) > 1
    THEN [run EXCEPT !.pc = "scan", !.queue = << >>, !.windows = Tail(@)]
    ELSE [run EXCEPT !.pc = "idle", !.queue = << >>, !.windows = << >>]

\* a sendReminderEmail whose failure ends the scan of the tick
DispatchAbortsScan(i, success) ==
    /\ runs[i].pc = "loop"
    /\ LET id == Head(runs[i].queue)
           key == Head(runs[i].windows)
       IN  IF success
           THEN /\ dispatched' = [dispatched EXCEPT ![id][key] = @ + 1]
                /\ runs' = [runs EXCEPT ![i].pc = "update"]
           ELSE /\ runs' = [runs EXCEPT ![i].pc = "idle", ![i].queue = << >>,
                                        ![i].windows = << >>]
                /\ UNCHANGED dispatched
    /\ UNCHANGED <<storeVars, referenceIdCounter, lockVars, year, inflight,
                   now, tz, issueVars>>

\* the reminders of (id, key) the admin address has received
AdminCount(id, key) ==
    IF <<id, key>> \in DOMAIN hist.admin THEN hist.admin[<<id, key>>] ELSE 0

\* sendReminderEmail up to the result of brevoService.sendReminderEmail,
\* which sends to the customer and to the admin address one after the other
\* and reports the success of the customer's email alone: success goes on to
\* the flag update, failure returns false
DispatchWith(i, customerResult, adminResult) ==
    /\ runs[i].pc = "loop"
    /\ LET id == Head(runs[i].queue)
           key == Head(runs[i].windows)
       IN  /\ IF customerResult
              THEN /\ dispatched' = [dispatched EXCEPT ![id][key] = @ + 1]
                   /\ runs' = [runs EXCEPT ![i].pc = "update"]
              ELSE /\ runs' = [runs EXCEPT ![i] = AfterDoc(@)]
                   /\ UNCHANGED dispatched
           /\ IF adminResult
              THEN hist' = [hist EXCEPT !.admin =
                              [p \in DOMAIN @ \cup {<<id, key>>} |->
                                 IF p = <<id, key>> THEN AdminCount(id, key) + 1
                                 ELSE @[p]]]
              ELSE UNCHANGED hist
    /\ UNCHANGED <<storeVars, referenceIdCounter, lockVars, year, inflight,
                   now, tz, issued, txs>>

\* the dispatch whose emails all go through or all fail
Dispatch(i, success) == DispatchWith(i, success, success)

\* a sendReminderEmail that returns without the bookingRef.update
SetFlagSkipsWrite(i, ok) ==
    /\ runs[i].pc = "update"
    /\ runs' = [runs EXCEPT ![i] = AfterDoc(@)]
    /\ UNCHANGED <<storeVars, referenceIdCounter, lockVars, year, inflight,
                   now, tz, dispatched, issueVars>>

\* bookingRef.update({[reminderKey]: true, ...}); an update the store rejects
\* throws into the catch of sendReminderEmail, which returns false
SetFlag(i, ok) ==
    /\ runs[i].pc = "update"
    /\ LET id == Head(runs[i].queue)
           key == Head(runs[i].windows)
       IN  IF ok
           THEN /\ appointments' = [appointments EXCEPT ![id][FlagOf(key)] = TRUE]
                /\ UNCHANGED hist
           ELSE /\ hist.rejected < MaxRejected
                /\ hist' = [hist EXCEPT !.rejected = @ + 1]
                /\ UNCHANGED appointments
    /\ runs' = [runs EXCEPT ![i] = AfterDoc(@)]
    /\ UNCHANGED <<counters, caDocs, referenceIdCounter, lockVars, year,
                   inflight, now, tz, dispatched, issued, txs>>

\* local times of day at which the clock is looked at: 21:00 and 22:00 on the
\* eve of the date, 08:00 and 09:29 on the date
ClockValues(offset) ==
    { (TheDate - 1) * 86400 + 21 * 3600 - offset,
      (TheDate - 1) * 86400 + 22 * 3600 - offset,
      TheDate * 86400 + 8 * 3600 - offset,
      TheDate * 86400 + 9 * 3600 + 29 * 60 - offset }

Advance(t) ==
    /\ t > now
    /\ now' = t
    /\ UNCHANGED <<storeVars, referenceIdCounter, lockVars, year, inflight, tz,
                   runs, dispatched, issueVars>>

\* stored bookings the scheduler finds: paid and awaiting at 09:30, paid and
\* confirmed at 09:00, paid and cancelled at 09:30, an unpaid draft at 09:30
\* (the paid ones with their Meet link and confirmation emails)
Stored(time_slot, status, payment_status) ==
    [NewAppointment(Request("", TheDate, time_slot, 30)) EXCEPT
        !.status = status, !.payment_status = payment_status,
        !.meet_link = (payment_status = "completed"),
        !.confirmation_email_sent = (payment_status = "completed")]

SchedBookings ==
    { Stored(<<9, 30>>, "pending", "completed"),
      Stored(<<9, 0>>, "confirmed", "completed"),
      Stored(<<9, 30>>, "cancelled", "completed"),
      Stored(<<9, 30>>, "draft", "pending") }

TZOffsets == {0, 19800}      \* UTC; Asia/Kolkata

InitSched ==
    /\ \E n \in 1..MaxBookings :
          appointments \in
             [{ FormatReferenceId(CurrentYear, c) : c \in 1..n } -> SchedBookings]
    /\ counters = CounterDoc(CurrentYear, Cardinality(DOMAIN appointments))
    /\ caDocs = InitCADocs
    /\ year = CurrentYear
    /\ inflight = [r \in ReqSlots |-> NoRequest]
    /\ tz \in TZOffsets
    /\ now = (TheDate - 1) * 86400 + 21 * 3600 - tz
    /\ runs = [i \in Schedulers |-> IdleRun]
    /\ dispatched = [id \in DOMAIN appointments |-> [k \in ReminderKeys |-> 0]]
    /\ issued = << >>
    /\ txs = << >>
    /\ hist = NoHist
    /\ referenceIdCounter = NoCounter
    /\ lockedSlots = << >>
    /\ unswept = << >>
    /\ granted = << >>

TickWindows == { <<"12hr", "1hr">>, <<"1min">> }

\* one scheduler: its runs follow each other
NextSched ==
    \/ Start(1)
    \/ Restart(1)
    \/ \E w \in TickWindows : StartTick(1, w)
    \/ Scan(1)
    \/ \E success \in BOOLEAN : Dispatch(1, success)
    \/ \E ok \in BOOLEAN : SetFlag(1, ok)
    \/ \E t \in ClockValues(tz) : Advance(t)

SpecSched == InitSched /\ [][NextSched]_vars

\* two schedulers against the same store, which takes every update; both
\* started, the server in UTC
InitSched2 ==
    /\ \E n \in 1..MaxContended :
          appointments \in
             [{ FormatReferenceId(CurrentYear, c) : c \in 1..n } -> SchedBookings]
    /\ counters = CounterDoc(CurrentYear, Cardinality(DOMAIN appointments))
    /\ caDocs = InitCADocs
    /\ year = CurrentYear
    /\ inflight = [r \in ReqSlots |-> NoRequest]
    /\ tz = 0
    /\ now = (TheDate - 1) * 86400 + 21 * 3600 - tz
    /\ runs = [i \in Schedulers |-> [IdleRun EXCEPT !.started = TRUE]]
    /\ dispatched = [id \in DOMAIN appointments |-> [k \in ReminderKeys |-> 0]]
    /\ issued = << >>
    /\ txs = << >>
    /\ hist = NoHist
    /\ referenceIdCounter = NoCounter
    /\ lockedSlots = << >>
    /\ unswept = << >>
    /\ granted = << >>

NextSched2 ==
    \/ \E i \in Schedulers, w \in TickWindows : StartTick(i, w)
    \/ \E i \in Schedulers : Scan(i)
    \/ \E i \in Schedulers, success \in BOOLEAN : Dispatch(i, success)
    \/ \E i \in Schedulers : SetFlag(i, TRUE)
    \/ \E t \in ClockValues(tz) : Advance(t)

SpecSched2 == InitSched2 /\ [][NextSched2]_vars

----------------------------------------------------------------------------
(* referenceIdHelper.js: generateReferenceId called by concurrent callers *)

Callers == {1, 2}

IdleTx == [pc |-> "idle", year |-> 0, read |-> NoCounter]

\* generateReferenceId: getCurrentYear(), then the first transaction.get
IssueBegin(c) ==
    /\ txs[c].pc = "idle"
    /\ txs' = [txs EXCEPT ![c] = [pc |-> "tx", year |-> year, read |-> counters]]
    /\ hist' = [hist EXCEPT !.sequential =
                   @ /\ \A d \in Callers \ {c} : txs[d].pc = "idle"]
    /\ UNCHANGED <<storeVars, referenceIdCounter, lockVars, year, inflight,
                   schedVars, issued>>

\* the document changed since it was read: the transaction function runs again
TxRetry(c) ==
    /\ txs[c].pc = "tx"
    /\ txs[c].read # counters
    /\ txs' = [txs EXCEPT ![c].read = counters]
    /\ UNCHANGED <<storeVars, referenceIdCounter, lockVars, year, inflight,
                   schedVars, issued, hist>>

\* transaction.set commits; generateReferenceId formats and returns the id
TxCommit(c) ==
    /\ txs[c].pc = "tx"
    /\ txs[c].read = counters
    /\ NextCounter(txs[c].read, txs[c].year) <= MaxIssue
    /\ counters' = CounterDoc(txs[c].year, NextCounter(txs[c].read, txs[c].year))
    /\ issued' = Append(issued, FormatReferenceId(txs[c].year,
                                   NextCounter(txs[c].read, txs[c].year)))
    /\ txs' = [txs EXCEPT ![c] = IdleTx]
    /\ hist' = [hist EXCEPT !.reset = FALSE]
    /\ UNCHANGED <<appointments, caDocs, referenceIdCounter, lockVars, year,
                   inflight, schedVars>>

\* runTransaction rejects: 'Failed to generate reference ID' is thrown
TxAbort(c) ==
    /\ txs[c].pc = "tx"
    /\ txs' = [txs EXCEPT ![c] = IdleTx]
    /\ UNCHANGED <<storeVars, referenceIdCounter, lockVars, year, inflight,
                   schedVars, issued, hist>>

\* a resetCounter that writes the document getNextCounter reads
ResetCounterOfIssue ==
    /\ counters' = CounterDoc(year, 0)
    /\ hist' = [hist EXCEPT !.reset = \A c \in Callers : txs[c].pc = "idle"]
    /\ UNCHANGED <<appointments, caDocs, referenceIdCounter, lockVars, year,
                   inflight, schedVars, issued, txs>>

\* admin.controller.js resetCounter: counterRef.set({year, counter: 0}) on the
\* document system/counters/reference_id/counter
ResetCounter ==
    /\ referenceIdCounter' = CounterDoc(year, 0)
    /\ hist' = [hist EXCEPT !.reset = \A c \in Callers : txs[c].pc = "idle"]
    /\ UNCHANGED <<storeVars, lockVars, year, inflight, schedVars, issued, txs>>

\* new year's eve passes
YearRollover ==
    /\ year < CurrentYear + MaxRollover
    /\ year' = year + 1
    /\ UNCHANGED <<storeVars, referenceIdCounter, lockVars, inflight,
                   schedVars, issueVars>>

\* the counter document at the start: absent, of the current year, or left
\* over from last year
InitCounters ==
    { NoCounter, CounterDoc(CurrentYear, 1), CounterDoc(CurrentYear - 1, 2) }

InitIssue ==
    /\ appointments = << >>
    /\ counters \in InitCounters
    /\ caDocs = InitCADocs
    /\ year = CurrentYear
    /\ inflight = [r \in ReqSlots |-> NoRequest]
    /\ now = 0
    /\ tz = 0
    /\ runs = << >>
    /\ dispatched = << >>
    /\ issued = << >>
    /\ txs = [c \in Callers |-> IdleTx]
    /\ hist = [startAbsent |-> ~counters.exists, sequential |-> TRUE,
               startYear |-> CurrentYear, rejected |-> 0,
               base |-> IF counters.exists /\ counters.year = CurrentYear
                        THEN counters.counter ELSE 0,
               reset |-> FALSE, admin |-> << >>]
    /\ referenceIdCounter = NoCounter
    /\ lockedSlots = << >>
    /\ unswept = << >>
    /\ granted = << >>

NextIssue ==
    \/ \E c \in Callers : IssueBegin(c)
    \/ \E c \in Callers : TxRetry(c)
    \/ \E c \in Callers : TxCommit(c)
    \/ \E c \in Callers : TxAbort(c)
    \/ ResetCounter
    \/ YearRollover

SpecIssue == InitIssue /\ [][NextIssue]_vars

----------------------------------------------------------------------------
(* All handlers and the reminder ticks on one store *)

\* referenceIdHelper.js getCurrentCounter: reads the counter document and
\* returns {year, counter}
GetCurrentCounter == UNCHANGED vars

\* request bodies: one that passes the checks, one for the slot of the paid
\* booking, one for a consultant who is unavailable, one without a duration
FrameRequests ==
    { Request("", TheDate, <<9, 0>>, 30), Request("", TheDate, <<9, 30>>, 30),
      Request("ca1", TheDate, <<9, 15>>, 30), Request("", TheDate, <<9, 0>>, 0) }

\* a status updateStatus accepts and one it rejects; a consultant with a
\* document and one without
FrameStatuses == { "confirmed", "draft" }
FrameCAs == { "ca2", "ghost" }

\* every handler and the reminder ticks against one store that holds a paid
\* booking and has one reference id left in the year; the scheduler is
\* running, the server in UTC
InitFrame ==
    /\ appointments = (FormatReferenceId(CurrentYear, 1)
                          :> Stored(<<9, 30>>, "pending", "completed"))
    /\ counters = CounterDoc(CurrentYear, MaxBookings - 1)
    /\ caDocs = InitCADocs
    /\ year = CurrentYear
    /\ inflight = [r \in ReqSlots |-> NoRequest]
    /\ tz = 0
    /\ now = (TheDate - 1) * 86400 + 21 * 3600
    /\ runs = [i \in Schedulers |-> [IdleRun EXCEPT !.started = TRUE]]
    /\ dispatched = [id \in DOMAIN appointments |-> [k \in ReminderKeys |-> 0]]
    /\ issued = [n \in 1..(MaxBookings - 1) |-> FormatReferenceId(CurrentYear, n)]
    /\ txs = [c \in Callers |-> IdleTx]
    /\ hist = NoHist
    /\ referenceIdCounter = NoCounter
    /\ lockedSlots = << >>
    /\ unswept = << >>
    /\ granted = << >>

NextFrame ==
    \/ \E req \in FrameRequests, fail \in Fails : CreateBookingOrder(req, fail)
    \/ \E id \in AllIds, isValid \in BOOLEAN : VerifyBookingPayment(id, isValid)
    \/ \E id \in AllIds : CancelBooking(id)
    \/ \E id \in AllIds, s \in FrameStatuses : UpdateStatus(id, s)
    \/ \E id \in AllIds, ca \in FrameCAs : AssignCA(id, ca)
    \/ GetCurrentCounter
    \/ ResetCounter
    \/ \E w \in TickWindows : StartTick(1, w)
    \/ Scan(1)
    \/ \E success \in BOOLEAN : Dispatch(1, success)
    \/ SetFlag(1, TRUE)
    \/ \E t \in ClockValues(tz) : Advance(t)

SpecFrame == InitFrame /\ [][NextFrame]_vars

\* sequences of createBookingOrder calls on an empty store, with payments and
\* cancellations between them
NextCreate ==
    \/ \E req \in Requests, fail \in Fails : CreateBookingOrder(req, fail)
    \/ \E id \in AllIds, isValid \in BOOLEAN : VerifyBookingPayment(id, isValid)
    \/ \E id \in AllIds : CancelBooking(id)

SpecCreate == Init /\ [][NextCreate]_vars

----------------------------------------------------------------------------
(* createBookingOrder against consultants with declared unavailable slots *)

Blackout(date, start_time, end_time) ==
    [date |-> date, start_time |-> start_time, end_time |-> end_time]

\* unavailable_slots entries: 09:30-10:30, 08:30-09:00 and 09:00-09:10 on the
\* date, 09:00-10:00 on the day after
BlackoutEntries ==
    { Blackout(TheDate, <<9, 30>>, <<10, 30>>),
      Blackout(TheDate, <<8, 30>>, <<9, 0>>),
      Blackout(TheDate, <<9, 0>>, <<9, 10>>),
      Blackout(TheDate + 1, <<9, 0>>, <<10, 0>>) }

BlackoutLists ==
    { << >> } \cup { <<a>> : a \in BlackoutEntries }
              \cup { <<a, b>> : a, b \in BlackoutEntries }

AvailRequests ==
    { Request(ca, TheDate, t, 30) : ca \in {"ca1", "ca2", "ghost"}, t \in TimeSlots }
    \cup { Request("ca1", TheDate + 1, <<9, 30>>, 30) }

\* the failures of createBookingOrder, with the failed read of a CA document
AvailFails == Fails \cup {"ca"}

InitAvail ==
    /\ appointments = << >>
    /\ counters = NoCounter
    /\ \E l \in BlackoutLists :
          caDocs = ("ca1" :> [unavailable_slots |-> l])
                   @@ ("ca2" :> [unavailable_slots |-> << >>])
    /\ year = CurrentYear
    /\ inflight = [r \in ReqSlots |-> NoRequest]
    /\ now = 0
    /\ tz = 0
    /\ runs = << >>
    /\ dispatched = << >>
    /\ issued = << >>
    /\ txs = << >>
    /\ hist = NoHist
    /\ referenceIdCounter = NoCounter
    /\ lockedSlots = << >>
    /\ unswept = << >>
    /\ granted = << >>

NextAvail ==
    \/ \E req \in AvailRequests, fail \in AvailFails : CreateBookingOrder(req, fail)
    \/ \E id \in AllIds : VerifyBookingPayment(id, TRUE)
    \/ \E id \in AllIds : CancelBooking(id)

SpecAvail == InitAvail /\ [][NextAvail]_vars

----------------------------------------------------------------------------
(* verifyBookingPayment with failing Meet links and confirmation emails *)

PayRequests ==
    { Request("", TheDate, <<9, 0>>, 30), Request("ca2", TheDate, <<9, 30>>, 30) }

NextPay ==
    \/ \E req \in PayRequests : CreateBookingOrder(req, "none")
    \/ \E id \in AllIds, isValid, meetResult, emailResult \in BOOLEAN :
          VerifyBookingPaymentWith(id, isValid, meetResult, emailResult)
    \/ \E id \in AllIds, st \in FrameStatuses : UpdateStatus(id, st)
    \/ \E id \in AllIds : CancelBooking(id)

SpecPay == Init /\ [][NextPay]_vars

----------------------------------------------------------------------------
(* One scheduler and the staff handlers on bookings of every status *)

\* the first booking of the store: of any status, paid or not, or paid and
\* awaiting with its 1-hour and 1-minute reminders already sent
ScanBookings ==
    { Stored(<<9, 30>>, "pending", "completed"),
      Stored(<<9, 0>>, "confirmed", "completed"),
      Stored(<<9, 30>>, "completed", "completed"),
      Stored(<<9, 30>>, "cancelled", "completed"),
      Stored(<<9, 30>>, "draft", "pending"),
      [Stored(<<9, 30>>, "pending", "completed") EXCEPT
          !.reminder_1hr_sent = TRUE, !.reminder_1min_sent = TRUE] }

ScanStatuses == { "confirmed", "completed" }

\* two stored bookings, the second paid and awaiting at 09:30; the scheduler
\* started, the server in UTC
InitScan ==
    /\ \E b \in ScanBookings :
          appointments = (FormatReferenceId(CurrentYear, 1) :> b)
             @@ (FormatReferenceId(CurrentYear, 2)
                    :> Stored(<<9, 30>>, "pending", "completed"))
    /\ counters = CounterDoc(CurrentYear, 2)
    /\ caDocs = InitCADocs
    /\ year = CurrentYear
    /\ inflight = [r \in ReqSlots |-> NoRequest]
    /\ tz = 0
    /\ now = (TheDate - 1) * 86400 + 21 * 3600
    /\ runs = [i \in Schedulers |-> [IdleRun EXCEPT !.started = TRUE]]
    /\ dispatched = [id \in DOMAIN appointments |-> [k \in ReminderKeys |-> 0]]
    /\ issued = << >>
    /\ txs = << >>
    /\ hist = NoHist
    /\ referenceIdCounter = NoCounter
    /\ lockedSlots = << >>
    /\ unswept = << >>
    /\ granted = << >>

NextScan ==
    \/ \E w \in TickWindows : StartTick(1, w)
    \/ Scan(1)
    \/ \E success \in BOOLEAN : Dispatch(1, success)
    \/ SetFlag(1, TRUE)
    \/ \E t \in ClockValues(tz) : Advance(t)
    \/ \E id \in AllIds, st \in ScanStatuses : UpdateStatus(id, st)
    \/ \E id \in AllIds : CancelBooking(id)

SpecScan == InitScan /\ [][NextScan]_vars

----------------------------------------------------------------------------
(* The two cron jobs of start(), firing minute by minute *)

\* run 1 is the callback of '* * * * *', run 2 the callback of '0 * * * *'
FineJob == 1
CoarseJob == 2

\* '0 * * * *' with timezone 'Asia/Kolkata': the full hours of UTC+05:30
HourlyFiring(t) == (t + 19800) % 3600 = 0

\* the cron job of every minute fires: check1MinuteReminders
FineFiring ==
    /\ runs[FineJob].t0 # now
    /\ StartTick(FineJob, <<"1min">>)

\* the cron job of every hour fires: sendHourlyReminders
CoarseFiring ==
    /\ HourlyFiring(now)
    /\ runs[CoarseJob].t0 # now
    /\ StartTick(CoarseJob, <<"12hr", "1hr">>)

\* the start instant of the one stored booking, in local time
BookingStart ==
    LET data == appointments[FormatReferenceId(CurrentYear, 1)]
    IN  data.date * 86400 + ToMinutes(data.time_slot) * 60 - tz

\* the next minute begins once the callbacks of this minute have returned
NextMinute ==
    /\ \A i \in Schedulers : runs[i].pc = "idle"
    /\ runs[FineJob].t0 = now
    /\ HourlyFiring(now) => runs[CoarseJob].t0 = now
    /\ now < BookingStart + 60
    /\ now' = now + 60
    /\ UNCHANGED <<storeVars, referenceIdCounter, lockVars, year, inflight, tz,
                   runs, dispatched, issueVars>>

\* time slots shortly after midnight, in office hours and shortly before
\* midnight
TickSlots == { <<0, 10>>, <<9, 30>>, <<23, 50>> }

\* one paid booking awaiting its consultation, the clock thirteen hours
\* before its start, the server in UTC or in Asia/Kolkata
InitTicks ==
    /\ \E t \in TickSlots :
          appointments = (FormatReferenceId(CurrentYear, 1)
                             :> Stored(t, "pending", "completed"))
    /\ counters = CounterDoc(CurrentYear, 1)
    /\ caDocs = InitCADocs
    /\ year = CurrentYear
    /\ inflight = [r \in ReqSlots |-> NoRequest]
    /\ tz \in TZOffsets
    /\ now = BookingStart - 13 * 3600
    /\ runs = [i \in Schedulers |-> [IdleRun EXCEPT !.started = TRUE]]
    /\ dispatched = [id \in DOMAIN appointments |-> [k \in ReminderKeys |-> 0]]
    /\ issued = << >>
    /\ txs = << >>
    /\ hist = NoHist
    /\ referenceIdCounter = NoCounter
    /\ lockedSlots = << >>
    /\ unswept = << >>
    /\ granted = << >>

\* every dispatch and every flag update succeeds
NextTicks ==
    \/ FineFiring
    \/ CoarseFiring
    \/ \E i \in Schedulers : Scan(i)
    \/ \E i \in Schedulers : Dispatch(i, TRUE)
    \/ \E i \in Schedulers : SetFlag(i, TRUE)
    \/ NextMinute

SpecTicks == InitTicks /\ [][NextTicks]_vars

----------------------------------------------------------------------------
(* A cron callback and a call of testReminders in one process *)

\* testReminders: sendHourlyReminders, then check1MinuteReminders, each
\* taking the time of its own start; it runs as execution 2 whatever
\* execution 1, the cron callback, is waiting for
TestReminders(windows) == StartTick(2, windows)

InitOverlap == InitSched2

NextOverlap ==
    \/ \E w \in TickWindows : StartTick(1, w)
    \/ \E w \in TickWindows : TestReminders(w)
    \/ \E i \in Schedulers : Scan(i)
    \/ \E i \in Schedulers, success \in BOOLEAN : Dispatch(i, success)
    \/ \E i \in Schedulers : SetFlag(i, TRUE)
    \/ \E t \in ClockValues(tz) : Advance(t)

SpecOverlap == InitOverlap /\ [][NextOverlap]_vars

----------------------------------------------------------------------------
(* One scheduler whose emails fail recipient by recipient *)

\* one paid booking awaiting its consultation at 09:30, the server in
\* Asia/Kolkata, the clock at 21:00 on the eve
InitPartial ==
    /\ appointments = (FormatReferenceId(CurrentYear, 1)
                          :> Stored(<<9, 30>>, "pending", "completed"))
    /\ counters = CounterDoc(CurrentYear, 1)
    /\ caDocs = InitCADocs
    /\ year = CurrentYear
    /\ inflight = [r \in ReqSlots |-> NoRequest]
    /\ tz = 19800
    /\ now = (TheDate - 1) * 86400 + 21 * 3600 - tz
    /\ runs = [i \in Schedulers |-> [IdleRun EXCEPT !.started = TRUE]]
    /\ dispatched = [id \in DOMAIN appointments |-> [k \in ReminderKeys |-> 0]]
    /\ issued = << >>
    /\ txs = << >>
    /\ hist = NoHist
    /\ referenceIdCounter = NoCounter
    /\ lockedSlots = << >>
    /\ unswept = << >>
    /\ granted = << >>

\* each job fires once at an instant, the hourly one on the full hours;
\* every flag update succeeds
NextPartial ==
    \/ FineFiring
    \/ CoarseFiring
    \/ \E i \in Schedulers : Scan(i)
    \/ \E i \in Schedulers, customerResult, adminResult \in BOOLEAN :
          DispatchWith(i, customerResult, adminResult)
    \/ \E i \in Schedulers : SetFlag(i, TRUE)
    \/ \E t \in ClockValues(tz) : Advance(t)

SpecPartial == InitPartial /\ [][NextPartial]_vars

----------------------------------------------------------------------------
(* slotLock.js *)

LockDuration == 300     \* lockDuration = 5 * 60 * 1000 ms, in seconds

\* `${date}__${timeSlot}`
LockKey(date, timeSlot) == <<date, timeSlot>>

LockKeys == { LockKey(TheDate, <<9, 0>>), LockKey(TheDate, <<9, 30>>) }

\* the values of Date.now() at which the module is called
LockTimes == { 0, 1, LockDuration - 1, LockDuration, LockDuration + 1,
               2 * LockDuration, 2 * LockDuration + 1 }

\* Map.prototype.delete and Map.prototype.set
MapDelete(m, key) == [k \in DOMAIN m \ {key} |-> m[k]]
MapSet(m, key, value) ==
    [k \in DOMAIN m \cup {key} |-> IF k = key THEN value ELSE m[k]]

\* a lockSlot that takes the slot whatever the Map holds
LockSlotResultAlways(m, key, t) == TRUE

\* lockSlot: false when the Map has the key with expiresAt > now
LockSlotResult(m, key, t) == ~(key \in DOMAIN m /\ m[key].expiresAt > t)

LockSlotMap(m, key, t) ==
    IF LockSlotResult(m, key, t)
    THEN MapSet(m, key, [lockedAt |-> t, expiresAt |-> t + LockDuration])
    ELSE m

\* releaseSlot: lockedSlots.delete(key)
ReleaseSlotResult(m, key) == key \in DOMAIN m

\* an isSlotLocked whose entry is still live at the instant it expires
IsSlotLockedResultLate(m, key, t) == key \in DOMAIN m /\ ~(m[key].expiresAt < t)

\* isSlotLocked: isExpired = expiresAt <= Date.now()
IsSlotLockedResult(m, key, t) == key \in DOMAIN m /\ ~(m[key].expiresAt <= t)

IsSlotLockedMap(m, key, t) ==
    IF key \in DOMAIN m /\ m[key].expiresAt <= t THEN MapDelete(m, key) ELSE m

\* getSlotLockTime: Math.max(0, expiresAt - Date.now())
GetSlotLockTimeResult(m, key, t) ==
    IF key \notin DOMAIN m THEN 0
    ELSE IF m[key].expiresAt - t > 0 THEN m[key].expiresAt - t ELSE 0

\* a cleanup that empties the Map
CleanupEverything(m, t) == << >>

\* cleanupExpiredLocks: deletes the entries with expiresAt <= now
CleanupExpiredLocksMap(m, t) ==
    [k \in { j \in DOMAIN m : ~(m[j].expiresAt <= t) } |-> m[k]]

CleanupExpiredLocksResult(m, t) ==
    Cardinality({ j \in DOMAIN m : m[j].expiresAt <= t })

LockSlot(key) ==
    /\ lockedSlots' = LockSlotMap(lockedSlots, key, now)
    /\ unswept' = LockSlotMap(unswept, key, now)
    /\ granted' = IF LockSlotResult(lockedSlots, key, now)
                  THEN MapSet(granted, key, now) ELSE granted
    /\ UNCHANGED <<storeVars, referenceIdCounter, year, inflight, schedVars,
                   issueVars>>

ReleaseSlot(key) ==
    /\ lockedSlots' = MapDelete(lockedSlots, key)
    /\ unswept' = MapDelete(unswept, key)
    /\ granted' = MapDelete(granted, key)
    /\ UNCHANGED <<storeVars, referenceIdCounter, year, inflight, schedVars,
                   issueVars>>

IsSlotLocked(key) ==
    /\ lockedSlots' = IsSlotLockedMap(lockedSlots, key, now)
    /\ unswept' = IsSlotLockedMap(unswept, key, now)
    /\ UNCHANGED <<storeVars, referenceIdCounter, year, inflight, schedVars,
                   issueVars, granted>>

GetSlotLockTime(key) == UNCHANGED vars

\* the callback of startCleanupInterval
CleanupExpiredLocks ==
    /\ lockedSlots' = CleanupExpiredLocksMap(lockedSlots, now)
    /\ UNCHANGED <<storeVars, referenceIdCounter, year, inflight, schedVars,
                   issueVars, unswept, granted>>

InitLock == Init

NextLock ==
    \/ \E key \in LockKeys : LockSlot(key)
    \/ \E key \in LockKeys : ReleaseSlot(key)
    \/ \E key \in LockKeys : IsSlotLocked(key)
    \/ \E key \in LockKeys : GetSlotLockTime(key)
    \/ CleanupExpiredLocks
    \/ \E t \in LockTimes : Advance(t)

SpecLock == InitLock /\ [][NextLock]_vars

----------------------------------------------------------------------------
(* Properties of the booking lifecycle *)

Terminal == {"completed", "cancelled"}

\* [time_slot, time_slot + duration) of a stored booking, in minutes of the day
IntervalStart(data) == ToMinutes(data.time_slot)
IntervalEnd(data) == ToMinutes(data.time_slot) + data.duration

\* two bookings compete for the same consultant: the same one is assigned, or
\* one of them is unassigned and shares the pool with every consultant
SamePool(a, b) ==
    a.assigned_ca = b.assigned_ca \/ a.assigned_ca = "" \/ b.assigned_ca = ""

\* two bookings that must not both be paid for
Conflicting(a, b) ==
    /\ a.date = b.date
    /\ SamePool(a, b)
    /\ IntervalStart(a) < IntervalEnd(b) /\ IntervalStart(b) < IntervalEnd(a)

Active(data) == data.payment_status = "completed" /\ data.status # "cancelled"

\* another stored booking, paid and not cancelled, conflicts with booking id
HasPaidConflict(id) ==
    \E k \in DOMAIN appointments \ {id} :
        Active(appointments[k]) /\ Conflicting(appointments[id], appointments[k])

\* C1: no two stored bookings of the same date and consultant pool are both
\* paid and not cancelled while their half-open intervals overlap
C1_NoDoubleBooking ==
    \A a, b \in DOMAIN appointments :
        (a # b /\ Active(appointments[a]) /\ Active(appointments[b]))
            => ~Conflicting(appointments[a], appointments[b])

\* C2: while a booking is stored and unpaid, no step stores a new booking for
\* the same date, time_slot and consultant (the second create writes nothing)
C2_SecondCreateRejected ==
    [][\A k \in DOMAIN appointments :
          appointments[k].payment_status = "pending"
          => \A n \in DOMAIN appointments' \ DOMAIN appointments :
                ~ /\ appointments'[n].date = appointments[k].date
                  /\ appointments'[n].time_slot = appointments[k].time_slot
                  /\ appointments'[n].assigned_ca = appointments[k].assigned_ca]_vars

\* C3: a booking that is unpaid and has a paid, non-cancelled conflicting
\* booking of the same consultant keeps payment_status = pending and its
\* status in every step (markPaymentCompleted fails on it)
C3_PaymentRechecksSlot ==
    [][\A id \in DOMAIN appointments :
          (appointments[id].payment_status = "pending" /\ HasPaidConflict(id))
          => /\ appointments'[id].payment_status = "pending"
             /\ \A isValid \in BOOLEAN :
                   VerifyBookingPayment(id, isValid)
                   => appointments'[id].status = appointments[id].status]_vars

\* the transition table of setStatus
TransitionTable ==
    { <<"pending", "confirmed">>, <<"pending", "completed">>,
      <<"pending", "cancelled">>, <<"confirmed", "completed">>,
      <<"confirmed", "cancelled">> }

\* C4: a setStatus step sets the requested status when (current, requested) is
\* an edge of the transition table and leaves the status unchanged otherwise
C4_TransitionTable ==
    [][\A id \in DOMAIN appointments, s \in StatusInputs :
          UpdateStatus(id, s)
          => IF <<appointments[id].status, s>> \in TransitionTable
             THEN appointments'[id].status = s
             ELSE appointments'[id].status = appointments[id].status]_vars

\* C5: once the status of a booking is completed or cancelled, no step
\* changes it
C5_TerminalIsFinal ==
    [][\A id \in DOMAIN appointments :
          appointments[id].status \in Terminal
          => appointments'[id].status = appointments[id].status]_vars

\* C6: assigned_ca of a stored booking changes only when the booking is
\* neither completed nor cancelled and the new consultant is available for the
\* booking's date, time_slot and duration
C6_AssignChecksAvailability ==
    [][\A id \in DOMAIN appointments :
          appointments'[id].assigned_ca # appointments[id].assigned_ca
          => /\ appointments[id].status \notin Terminal
             /\ IsCAAvailable(appointments'[id].assigned_ca, appointments[id].date,
                              appointments[id].time_slot,
                              appointments[id].duration)]_vars

----------------------------------------------------------------------------
(* Properties of the reminder scheduler *)

\* the runs that have dispatched (id, key) and not yet written its flag
Updating(id, key) ==
    { i \in Schedulers : /\ runs[i].pc = "update"
                         /\ Head(runs[i].queue) = id
                         /\ Head(runs[i].windows) = key }

C8_FailedDispatchIsRetried ==
    [][Dispatch(1, FALSE)
          => LET id == Head(runs[1].queue)
                 key == Head(runs[1].windows)
             IN  /\ appointments' = appointments
                 /\ ~appointments'[id][FlagOf(key)]
                 /\ dispatched' = dispatched
                 /\ InSnapshot(appointments'[id], runs[1].t0, key)
                 /\ Eligible(appointments'[id], runs[1].t0, key, tz')
                 /\ Len(runs[1].queue) > 1
                    => /\ runs'[1].pc = "loop"
                       /\ runs'[1].queue = Tail(runs[1].queue)
                       /\ runs'[1].windows = runs[1].windows]_vars

\* the run is at the second booking of its scan while the first, which it
\* could not dispatch, is still due
C8_Witness ==
    \E id \in DOMAIN appointments :
        /\ runs[1].pc \in {"loop", "update"}
        /\ Len(runs[1].queue) = 1
        /\ Head(runs[1].queue) # id
        /\ IdOrder(id) < IdOrder(Head(runs[1].queue))
        /\ InSnapshot(appointments[id], runs[1].t0, Head(runs[1].windows))
        /\ Eligible(appointments[id], runs[1].t0, Head(runs[1].windows), tz)
        /\ dispatched[id][Head(runs[1].windows)] = 0

\* C9: with two schedulers, the reminder of a (booking, key) is dispatched
\* once per scheduler at most, and as long as its flag is unset every dispatch
\* of it belongs to a run that read the flag unset and has not written it yet
C9_DuplicateByRaceOnly ==
    \A id \in DOMAIN appointments, key \in ReminderKeys :
        /\ dispatched[id][key] <= Cardinality(Schedulers)
        /\ ~appointments[id][FlagOf(key)]
           => dispatched[id][key] = Cardinality(Updating(id, key))

\* both schedulers have dispatched the same reminder and neither has written
\* the flag
C9_Witness ==
    \E id \in DOMAIN appointments, key \in ReminderKeys :
        /\ dispatched[id][key] = 2
        /\ ~appointments[id][FlagOf(key)]
        /\ Updating(id, key) = Schedulers

----------------------------------------------------------------------------
(* Properties of the reference-id issuer *)

\* C10: when the counter document was absent at the start, the calls were
\* made one after the other and the year has not changed, the N ids returned
\* carry the counters 1..N in call order and the stored counter is N
C10_SequentialIssue ==
    (hist.startAbsent /\ hist.sequential /\ year = hist.startYear)
    => /\ \A n \in 1..Len(issued) : issued[n] = FormatReferenceId(year, n)
       /\ IF issued = << >> THEN ~counters.exists
          ELSE counters = CounterDoc(year, Len(issued))

\* three calls made one after the other have returned
C10_Witness ==
    /\ hist.startAbsent /\ hist.sequential /\ year = hist.startYear
    /\ Len(issued) = 3
    /\ \A c \in Callers : txs[c].pc = "idle"

\* C11: whatever the interleaving of the callers' transactions, no two calls
\* have returned the same reference id
C11_NoDuplicateIds ==
    \A m, n \in 1..Len(issued) : m # n => issued[m] # issued[n]

\* what holds of concurrent callers as long as the year has not changed: the
\* ids returned are distinct and the stored counter has advanced by the
\* number of calls that have returned
IssueWithinOneYear ==
    year = hist.startYear
    => /\ C11_NoDuplicateIds
       /\ issued # << >> => counters = CounterDoc(year, hist.base + Len(issued))

\* C12: a call made in the current year that finds a counter document of
\* another year returns counter 0001 under the current year and stores
\* {year: current year, counter: 1}, whatever counter was stored
C12_YearRollover ==
    [][\A c \in Callers :
          (TxCommit(c) /\ txs[c].year = year
             /\ counters.exists /\ counters.year # year)
          => /\ issued' = Append(issued, FormatReferenceId(year, 1))
             /\ counters' = CounterDoc(year, 1)]_vars

\* the year has changed after NAB_2025_0002 was issued, and the call after
\* that has returned
C12_Witness ==
    /\ year = CurrentYear + 1
    /\ Len(issued) >= 2
    /\ issued[Len(issued) - 1] = FormatReferenceId(CurrentYear, 2)
    /\ issued[Len(issued)] = FormatReferenceId(year, 1)
    /\ counters = CounterDoc(year, 1)

\* C13: after resetCounter has completed with no issue call in progress, the
\* next call that returns, made in the current year, returns the reference id
\* with counter 0001 of the current year
C13_ResetRestartsAtOne ==
    [][\A c \in Callers :
          (TxCommit(c) /\ hist.reset /\ txs[c].year = year)
          => issued' = Append(issued, FormatReferenceId(year, 1))]_vars

IssuedIds == { issued[n] : n \in 1..Len(issued) }

\* C15: a createBookingOrder whose counter transaction aborts writes no
\* booking document (nor anything else); a booking document is only written
\* in the step that issues its key, and so the key of every stored booking is
\* a reference id that generateReferenceId returned
C15_NoBookingWithoutId ==
    /\ [](DOMAIN appointments \subseteq IssuedIds)
    /\ [][/\ \A req \in FrameRequests :
                CreateBookingOrder(req, "tx")
                => /\ appointments' = appointments
                   /\ counters' = counters
                   /\ issued' = issued
          /\ \A k \in DOMAIN appointments' \ DOMAIN appointments :
                issued' = Append(issued, k)]_vars

\* the first booking has been cancelled, and the request for its slot, which
\* now passes the checks, finds its counter transaction aborted: the step
\* changes nothing
C15_Witness ==
    /\ appointments[FormatReferenceId(CurrentYear, 1)].status = "cancelled"
    /\ DOMAIN appointments = {FormatReferenceId(CurrentYear, 1)}
    /\ CreateCheckResponse(Request("", TheDate, <<9, 30>>, 30)).code = 200
    /\ ENABLED CreateBookingOrder(Request("", TheDate, <<9, 30>>, 30), "tx")

\* the requested consultant is unavailable, or the requested interval
\* overlaps a stored booking of the same consultant pool that is paid and not
\* cancelled
MustBeRejected(req) ==
    \/ req.ca_id # ""
       /\ ~IsCAAvailable(req.ca_id, req.date, req.time_slot, req.duration)
    \/ \E k \in DOMAIN appointments :
          Active(appointments[k]) /\ Conflicting(NewAppointment(req), appointments[k])

\* C16: a createBookingOrder whose consultant is unavailable or whose interval
\* overlaps a paid, non-cancelled booking of the same consultant pool changes
\* nothing: no booking document is written, the year counter is not advanced
\* and no slot lock is held afterwards
C16_RejectedCreateWritesNothing ==
    [][\A req \in Requests, fail \in Fails :
          (CreateBookingOrder(req, fail) /\ req.duration # 0 /\ MustBeRejected(req))
          => /\ appointments' = appointments
             /\ counters' = counters
             /\ lockedSlots' = lockedSlots]_vars

\* the reference ids with the counters 1 .. stored counter of the year
CounterIds ==
    IF counters.exists
    THEN { FormatReferenceId(counters.year, c) : c \in 1..counters.counter }
    ELSE {}

\* C17 as stated: after any sequence of createBookingOrder calls within one
\* year, every counter value from 1 up to the stored counter is the key of a
\* stored booking
C17_GapFree == CounterIds \subseteq DOMAIN appointments

\* C17, amended: the counters 1 .. stored counter are exactly the reference
\* ids issued, each once, and the keys of the stored bookings are among them;
\* a counter value is the key of no booking when the call that was issued it
\* failed afterwards
C17_IssuedWithoutGaps ==
    /\ IssuedIds = CounterIds
    /\ Len(issued) = Cardinality(CounterIds)
    /\ DOMAIN appointments \subseteq CounterIds

\* createRazorpayOrder failed for the first call and the second call stored
\* its booking: counter 1 is the key of no booking
C17_Witness ==
    /\ counters = CounterDoc(CurrentYear, 2)
    /\ DOMAIN appointments = {FormatReferenceId(CurrentYear, 2)}
    /\ issued = <<FormatReferenceId(CurrentYear, 1), FormatReferenceId(CurrentYear, 2)>>


\* the instant at which the entry of key stops being live
ExpiresAt(m, key) == m[key].expiresAt

\* C18: while the time to live of a granted lockSlot on a key has not
\* elapsed and the key was not released, no further lockSlot on that key is
\* granted; and a lockSlot on one key changes neither the entry of another
\* key nor what lockSlot would return for it.
C18_AtMostOneHolder ==
    [][\A key \in LockKeys :
         LockSlot(key) =>
           /\ (key \in DOMAIN granted /\ now < granted[key] + LockDuration)
                => /\ ~LockSlotResult(lockedSlots, key, now)
                   /\ key \in DOMAIN lockedSlots
                   /\ lockedSlots' = lockedSlots
                   /\ granted' = granted
           /\ \A k \in LockKeys \ {key} :
                /\ (k \in DOMAIN lockedSlots') = (k \in DOMAIN lockedSlots)
                /\ k \in DOMAIN lockedSlots => lockedSlots'[k] = lockedSlots[k]
                /\ LockSlotResult(lockedSlots', k, now)
                     = LockSlotResult(lockedSlots, k, now)]_vars

\* one key is held since time 0 and is asked for again just before it
\* expires, while the other key was taken later
C18_Witness ==
    LET k1 == LockKey(TheDate, <<9, 0>>)
        k2 == LockKey(TheDate, <<9, 30>>)
    IN  /\ k1 \in DOMAIN granted /\ granted[k1] = 0
        /\ k2 \in DOMAIN granted /\ granted[k2] = 1
        /\ now = LockDuration - 1
        /\ k1 \in DOMAIN lockedSlots
        /\ ENABLED LockSlot(k1)

\* C19: for an entry of the Map, at every instant from expiresAt on
\* isSlotLocked is false and lockSlot is granted and installs an entry that
\* expires one lock duration later; before expiresAt isSlotLocked is true and
\* lockSlot is refused.  The lockSlot and isSlotLocked steps apply exactly
\* these functions to the Map.
C19_ExpiryBoundary ==
    /\ [](\A key \in DOMAIN lockedSlots :
            IF now >= ExpiresAt(lockedSlots, key)
            THEN /\ ~IsSlotLockedResult(lockedSlots, key, now)
                 /\ LockSlotResult(lockedSlots, key, now)
                 /\ LockSlotMap(lockedSlots, key, now)[key]
                      = [lockedAt |-> now, expiresAt |-> now + LockDuration]
            ELSE /\ IsSlotLockedResult(lockedSlots, key, now)
                 /\ ~LockSlotResult(lockedSlots, key, now)
                 /\ LockSlotMap(lockedSlots, key, now) = lockedSlots)
    /\ [][\A key \in LockKeys :
            /\ LockSlot(key) => lockedSlots' = LockSlotMap(lockedSlots, key, now)
            /\ IsSlotLocked(key) =>
                 (key \in DOMAIN lockedSlots')
                   = IsSlotLockedResult(lockedSlots, key, now)]_vars

\* an entry is still in the Map at the very instant it expires
C19_Witness ==
    \E key \in DOMAIN lockedSlots :
        /\ now = ExpiresAt(lockedSlots, key)
        /\ now = LockDuration

\* the calls whose result is the same with and without sweeps
SameResults(key) ==
    /\ LockSlotResult(lockedSlots, key, now) = LockSlotResult(unswept, key, now)
    /\ IsSlotLockedResult(lockedSlots, key, now)
         = IsSlotLockedResult(unswept, key, now)
    /\ GetSlotLockTimeResult(lockedSlots, key, now)
         = GetSlotLockTimeResult(unswept, key, now)

\* C20 as stated: lockSlot, releaseSlot, isSlotLocked and getSlotLockTime
\* return the same with interleaved sweeps as without them.
C20_SweepInvisible ==
    \A key \in LockKeys :
        /\ SameResults(key)
        /\ ReleaseSlotResult(lockedSlots, key) = ReleaseSlotResult(unswept, key)

\* C20: lockSlot, isSlotLocked and getSlotLockTime return the same with
\* interleaved sweeps as without them; releaseSlot returns the same unless
\* the entry had expired; a sweep removes exactly the expired entries.
C20_SweepInvisibleButForRelease ==
    /\ [](\A key \in LockKeys :
            /\ SameResults(key)
            /\ ReleaseSlotResult(lockedSlots, key) => ReleaseSlotResult(unswept, key)
            /\ (ReleaseSlotResult(unswept, key) /\ ~ReleaseSlotResult(lockedSlots, key))
                 => ExpiresAt(unswept, key) <= now
            /\ key \in DOMAIN lockedSlots => lockedSlots[key] = unswept[key])
    /\ [][CleanupExpiredLocks =>
            /\ DOMAIN lockedSlots' =
                 { k \in DOMAIN lockedSlots : ExpiresAt(lockedSlots, k) > now }
            /\ \A k \in DOMAIN lockedSlots' : lockedSlots'[k] = lockedSlots[k]
            /\ Cardinality(DOMAIN lockedSlots) - Cardinality(DOMAIN lockedSlots')
                 = CleanupExpiredLocksResult(lockedSlots, now)]_vars

\* a sweep has removed an expired entry that is still there without sweeps,
\* next to an entry that has not expired
C20_Witness ==
    \E k1, k2 \in LockKeys :
        /\ k1 \in DOMAIN unswept /\ k1 \notin DOMAIN lockedSlots
        /\ ExpiresAt(unswept, k1) <= now
        /\ k2 \in DOMAIN lockedSlots /\ ExpiresAt(lockedSlots, k2) > now


\* the inputs of isCAAvailable looked at
AvailDates == { TheDate, TheDate + 1 }
AvailSlots == TimeSlots \cup { <<8, 30>>, <<10, 30>> }
AvailDurations == { 15, 30, 45 }

\* C21: for a consultant with a document, isCAAvailable is false exactly when
\* one of its unavailable slots, wherever it stands in the list, has the
\* date of the request and start < slot end and slot start < end; a request
\* that starts at the end of an unavailable slot or ends at its start is
\* available, and createBookingOrder refuses the unavailable ones.
C21_BlackoutOverlap ==
    /\ [](\A ca \in DOMAIN caDocs, d \in AvailDates, t \in AvailSlots,
             len \in AvailDurations :
            LET start == t[1] * 60 + t[2]
                end == start + len
                entries == { caDocs[ca].unavailable_slots[i] :
                               i \in 1..Len(caDocs[ca].unavailable_slots) }
                blocked(b) ==
                    /\ b.date = d
                    /\ start < b.end_time[1] * 60 + b.end_time[2]
                    /\ b.start_time[1] * 60 + b.start_time[2] < end
            IN  /\ IsCAAvailable(ca, d, t, len) = ~(\E b \in entries : blocked(b))
                /\ \A b \in entries :
                     (b.date = d /\ (start = b.end_time[1] * 60 + b.end_time[2]
                                     \/ end = b.start_time[1] * 60 + b.start_time[2]))
                       => ~blocked(b))
    /\ [][\A req \in AvailRequests :
            (/\ req.ca_id \in DOMAIN caDocs
             /\ ~IsCAAvailable(req.ca_id, req.date, req.time_slot, req.duration)
             /\ CreateBookingOrder(req, "none"))
              => UNCHANGED <<appointments, counters>>]_vars

\* ca1 is unavailable at 09:15 because of the second entry of its list, the
\* first being of another date, and holds a booking at 09:00 that ends when
\* that unavailable slot starts
C21_Witness ==
    /\ caDocs["ca1"].unavailable_slots =
          << Blackout(TheDate + 1, <<9, 0>>, <<10, 0>>),
             Blackout(TheDate, <<9, 30>>, <<10, 30>>) >>
    /\ ~IsCAAvailable("ca1", TheDate, <<9, 15>>, 30)
    /\ IsCAAvailable("ca1", TheDate, <<9, 0>>, 30)
    /\ \E id \in DOMAIN appointments :
          /\ appointments[id].assigned_ca = "ca1"
          /\ appointments[id].time_slot = <<9, 0>>


\* C23: isCAAvailable is false for a consultant id without a document and
\* whenever reading the store throws, and createBookingOrder naming such a
\* consultant writes nothing: no booking, no counter, no id, no lock.
C23_FailsClosed ==
    /\ [](\A ca \in ReqCAs \ {""}, d \in AvailDates, t \in AvailSlots,
             len \in AvailDurations :
            /\ ca \notin DOMAIN caDocs => ~IsCAAvailableCatch(ca, d, t, len, FALSE)
            /\ ~IsCAAvailableCatch(ca, d, t, len, TRUE))
    /\ [][\A req \in AvailRequests, fail \in AvailFails :
            (/\ req.ca_id \notin DOMAIN caDocs \/ fail = "ca"
             /\ CreateBookingOrder(req, fail))
              => UNCHANGED <<appointments, counters, issued, lockedSlots>>]_vars

\* with a booking stored, a request for the free 09:30 slot of ca2 passes
\* every check, and is made both with the read of ca2 failing and for a
\* consultant that has no document
C23_Witness ==
    /\ appointments # << >>
    /\ AllIds \ DOMAIN appointments # {}
    /\ CreateCheckResponse(Request("ca2", TheDate, <<9, 30>>, 30)).code = 200
    /\ CreateCheckResponseOn(Request("ca2", TheDate, <<9, 30>>, 30), TRUE).code = 400
    /\ ENABLED CreateBookingOrder(Request("ca2", TheDate, <<9, 30>>, 30), "ca")
    /\ ENABLED CreateBookingOrder(Request("ghost", TheDate, <<9, 30>>, 30), "none")


\* C22: for every paid booking of a consultant that is not cancelled,
\* isCAAvailable is false for that consultant on the booking's date for
\* every 30-minute request whose interval overlaps the booking.
C22_PaidBookingBlocksConsultant ==
    \A id \in DOMAIN appointments :
        LET data == appointments[id] IN
        (/\ data.payment_status = "completed"
         /\ data.status # "cancelled"
         /\ data.assigned_ca \in DOMAIN caDocs)
          => \A t \in TimeSlots :
                (ToMinutes(t) < IntervalEnd(data) /\ IntervalStart(data) < ToMinutes(t) + 30)
                  => ~IsCAAvailableCatch(data.assigned_ca, data.date, t, 30, FALSE)


\* C24: a verifyBookingPayment with a valid signature on a booking that an
\* earlier one has already marked paid, whatever updateStatus and assignCA
\* did in between, leaves the booking's status and payment_status as they
\* were.
C24_PaymentIdempotent ==
    [][\A id \in DOMAIN appointments :
         (/\ appointments[id].payment_status = "completed"
          /\ VerifyBookingPayment(id, TRUE))
           => /\ appointments'[id].status = appointments[id].status
              /\ appointments'[id].payment_status = appointments[id].payment_status]_vars


\* the fields of a booking other than the Meet link and the email tracking
CoreFields(data) ==
    [f \in DOMAIN data \ {"meet_link", "confirmation_email_sent"} |-> data[f]]

\* what verifyBookingPayment is to leave behind for a stored booking
PaymentRecorded(id, meetResult, emailResult) ==
    /\ VerifyResponse(id, TRUE).code = 200
    /\ appointments'[id].payment_status = "completed"
    /\ appointments'[id].status = "pending"
    /\ DOMAIN appointments' = DOMAIN appointments
    /\ CoreFields(appointments'[id]) =
         [CoreFields(appointments[id]) EXCEPT
            !.payment_status = "completed", !.status = "pending"]
    /\ \A k \in DOMAIN appointments \ {id} : appointments'[k] = appointments[k]
    /\ ~meetResult => appointments'[id].meet_link = appointments[id].meet_link
    /\ ~emailResult =>
          appointments'[id].confirmation_email_sent
            = appointments[id].confirmation_email_sent
    /\ UNCHANGED <<counters, issued>>

\* C26: verifyBookingPayment with a valid signature on a stored booking
\* answers success and leaves payment_status completed and status pending
\* whether the Meet link and the confirmation emails succeed or fail; apart
\* from the link and email fields the store ends as it does when both
\* succeed, and a failed step leaves its own field as it was.
C26_SideEffectsDoNotBlock ==
    \A id \in DOMAIN appointments, meetResult, emailResult \in BOOLEAN :
        ENABLED (/\ VerifyBookingPaymentWith(id, TRUE, meetResult, emailResult)
                 /\ PaymentRecorded(id, meetResult, emailResult))

\* a booking was paid while its Meet link could not be created and its
\* confirmation emails went out
C26_Witness ==
    \E id \in DOMAIN appointments :
        /\ appointments[id].payment_status = "completed"
        /\ appointments[id].status = "pending"
        /\ ~appointments[id].meet_link
        /\ appointments[id].confirmation_email_sent


\* the reminder flags of a booking
ReminderFlags(data) == [key \in ReminderKeys |-> data[FlagOf(key)]]

\* C25: the flag update of the scheduler, whatever happened to the booking
\* since the scan, leaves status, payment_status and assigned_ca of every
\* booking as they are; updateStatus, assignCA, verifyBookingPayment and
\* cancelBooking leave every reminder flag as it is.
C25_DisjointFields ==
    [][/\ SetFlag(1, TRUE)
          => /\ DOMAIN appointments' = DOMAIN appointments
             /\ \A id \in DOMAIN appointments :
                   /\ appointments'[id].status = appointments[id].status
                   /\ appointments'[id].payment_status = appointments[id].payment_status
                   /\ appointments'[id].assigned_ca = appointments[id].assigned_ca
       /\ ( \/ \E id \in AllIds, st \in FrameStatuses : UpdateStatus(id, st)
            \/ \E id \in AllIds, ca \in FrameCAs : AssignCA(id, ca)
            \/ \E id \in AllIds, isValid, meetResult, emailResult \in BOOLEAN :
                  VerifyBookingPaymentWith(id, isValid, meetResult, emailResult)
            \/ \E id \in AllIds : CancelBooking(id) )
          => /\ DOMAIN appointments' = DOMAIN appointments
             /\ \A id \in DOMAIN appointments :
                   ReminderFlags(appointments'[id]) = ReminderFlags(appointments[id])]_vars

\* the scheduler is about to set a flag of a booking that was confirmed and
\* given a consultant after the scan and that already has another flag set
C25_Witness ==
    /\ runs[1].pc = "update"
    /\ LET id == Head(runs[1].queue) IN
         /\ appointments[id].status = "confirmed"
         /\ appointments[id].assigned_ca = "ca2"
         /\ appointments[id].reminder_12hr_sent
         /\ Head(runs[1].windows) = "1hr"
    /\ ENABLED SetFlag(1, TRUE)


\* the ids of a queue
QueueIds(q) == { q[n] : n \in 1..Len(q) }

\* the start instant of a booking lies in the closed window of an offset
\* for a tick that took the time t0
StartInWindow(data, t0, key) ==
    LET start == ParseAppointmentTime(data.date, data.time_slot, tz)
        target == t0 + (IF key = "12hr" THEN 12 * 3600
                        ELSE IF key = "1hr" THEN 3600 ELSE 60)
        half == IF key = "1min" THEN 30 ELSE 1800
    IN  target - half <= start /\ start <= target + half

\* C27: the bookings a scan selects for an offset are the bookings of the
\* target date that, in the state the scan reads, are paid, pending or
\* confirmed, start inside the closed window of the offset and have the flag
\* of that offset unset, whatever their other flags; a reminder is
\* dispatched only for the booking at the head of the selection of the last
\* scan and for that scan's offset, and only the flag of that booking and
\* offset is set.
C27_DispatchOnlyScanned ==
    [][/\ Scan(1)
          => LET key == Head(runs[1].windows) IN
             /\ QueueIds(runs'[1].queue) =
                  { id \in DOMAIN appointments :
                      /\ appointments[id].date = TargetDateStr(runs[1].t0, key)
                      /\ appointments[id].payment_status = "completed"
                      /\ appointments[id].status \in {"pending", "confirmed"}
                      /\ StartInWindow(appointments[id], runs[1].t0, key)
                      /\ ~appointments[id][FlagOf(key)] }
             /\ \A id \in QueueIds(runs'[1].queue) :
                  appointments[id].status \notin {"draft", "cancelled", "completed"}
       /\ (runs'[1].queue # runs[1].queue /\ ~Scan(1))
          => runs'[1].queue \in { Tail(runs[1].queue), << >> }
       /\ runs'[1].queue # << >>
          => /\ Head(runs'[1].windows) = Head(runs[1].windows)
             /\ runs'[1].t0 = runs[1].t0
       /\ dispatched' # dispatched
          => /\ runs[1].pc = "loop"
             /\ dispatched' = [dispatched EXCEPT
                   ![Head(runs[1].queue)][Head(runs[1].windows)] = @ + 1]
       /\ \A id \in DOMAIN appointments, key \in ReminderKeys :
            appointments'[id][FlagOf(key)] # appointments[id][FlagOf(key)]
              => /\ runs[1].pc = "update"
                 /\ id = Head(runs[1].queue)
                 /\ key = Head(runs[1].windows)]_vars

\* the 12-hour reminder of the booking whose 1-hour and 1-minute flags were
\* set from the start has been dispatched, the booking was cancelled after
\* the scan, and the other booking is still waiting in the selection
C27_Witness ==
    /\ runs[1].pc = "update"
    /\ Head(runs[1].windows) = "12hr"
    /\ Len(runs[1].queue) = 2
    /\ LET id == Head(runs[1].queue) IN
         /\ appointments[id].status = "cancelled"
         /\ appointments[id].reminder_1hr_sent
         /\ ~appointments[id].reminder_12hr_sent
         /\ dispatched[id]["12hr"] = 1
         /\ dispatched[id]["1hr"] = 0


\* C28: with a tick every minute and every hour and every dispatch
\* succeeding, once the start of a paid booking that was pending all along
\* has passed, each of its three reminders has been dispatched.
C28_EveryReminderSent ==
    \A id \in DOMAIN appointments :
        (/\ appointments[id].payment_status = "completed"
         /\ appointments[id].status = "pending"
         /\ now > appointments[id].date * 86400
                    + ToMinutes(appointments[id].time_slot) * 60 - tz)
          => \A key \in ReminderKeys : dispatched[id][key] >= 1


\* C29: in one process, whether or not a call of testReminders runs while
\* a cron callback is waiting for the store or the dispatcher, the reminder
\* of a booking and offset is dispatched once at most.
C29_OncePerProcess ==
    \A id \in DOMAIN appointments, key \in ReminderKeys : dispatched[id][key] <= 1


\* C30: with one scheduler, the customer and the admin address each receive
\* the reminder of a booking and offset once at most, also when the email to
\* one of them fails and the email to the other goes through.
C30_OncePerRecipient ==
    \A id \in DOMAIN appointments, key \in ReminderKeys :
        /\ dispatched[id][key] <= 1
        /\ AdminCount(id, key) <= 1

====
